---- MODULE Spec2Model ----
(***************************************************************************)
(* The async-service / synchronous-host bridge of leeola/cuttle, as it is  *)
(* written three times in the repository:                                  *)
(*   - the bridge test  (blender_test_addon: test_simulated_bridge and     *)
(*     test_simulated_bridge_standalone, the same code twice),             *)
(*   - the modal operator (CUTTLE_OT_simulate_modal),                      *)
(*   - the CLI test's copy of the modal service (test_cuttle_in_blender).  *)
(* Python strings are TLA+ strings; a queue.Queue is a sequence, its head  *)
(* the next item to get; Python's None is the empty tuple and a returned   *)
(* value v is <<v>>.                                                       *)
(***************************************************************************)
EXTENDS Naturals, Sequences, FiniteSets, TLC

VARIABLES
    \* ---- bridge test (test_simulated_bridge_standalone) ----
    to_service,      \* queue.Queue: host -> service
    from_service,    \* queue.Queue: service -> host
    service_pc,      \* "NotStarted" | "get" | "dispatch" | "Stopped"
    message,         \* the service's local `message` while it handles one
    response,        \* what the host's last try_recv_response() returned
    sentLog,         \* history: every item ever put on to_service
    consumedLog,     \* history: every item the service's get returned
    pushedLog,       \* history: every item ever put on from_service
    recvLog,         \* history: every item try_recv_response returned
    timeouts,        \* history: how many get(timeout=1) calls raised Empty
    \* ---- modal operator (CUTTLE_OT_simulate_modal) ----
    message_queue,   \* self._message_queue
    response_queue,  \* self._response_queue
    counter,         \* self._counter
    modal_pc,        \* "NotStarted" | "idle" | "get_nowait" | "count" | "stop" | "finished"
    modal_ret,       \* what execute/modal returned last
    modal_service_pc,\* "NotStarted" | "get" | "dispatch" | "Stopped"
    modal_msg,       \* the service's local `msg` while it handles one
    tick_avail,      \* history: responses queued when the current tick began
    tick_got,        \* history: responses reported so far in the current tick
    stop_tick,       \* history: the tick on which "stop" was put, 0 before
    sendLog,         \* history: every command the modal put
    modal_consumedLog, \* history: every command the modal service got
    modal_pushedLog, \* history: every response the modal service put
    reportLog,       \* history: every response reported as "Received: ..."
    modal_timeouts,  \* history: how many get(timeout=1) calls raised
    \* ---- CLI test (test_cuttle_in_blender, modal operator pattern) ----
    cli_message_queue,  \* message_queue
    cli_response_queue, \* response_queue
    cli_pc,          \* "start" | "put1" | "put2" | "put3" | "sleep" | "empty" | "get_nowait" | "done"
    responses,       \* the list `responses`
    cli_result,      \* None | <<"PASS">> | <<"FAIL">>
    cli_service_pc,  \* "NotStarted" | "get" | "dispatch" | "Stopped"
    cli_i,           \* iterations of `for i in range(3)` completed so far
    cli_msg,         \* the service's local `msg` while it handles one
    cli_consumedLog, \* history: every command the CLI service got
    cli_pushedLog,   \* history: every response the CLI service put
    \* ---- phase runners (CUTTLE_OT_test_architecture.execute,
    \*      test_cuttle_in_blender) ----
    arch_ran,        \* execute: outcome of each phase run so far, in order
    arch_reports,    \* execute: every self.report() after the banner
    arch_ret,        \* execute: "NotReturned" | "FINISHED" | "CANCELLED"
    test_ran,        \* test_cuttle_in_blender: outcome of each phase run so far
    test_reports,    \* test_cuttle_in_blender: the PASS/FAIL/SUCCESS lines printed
    test_ret,        \* test_cuttle_in_blender: "NotReturned" | "True" | "False"
    test_pc          \* test_cuttle_in_blender: "try" | "finally" | "done"

bridgeVars == <<to_service, from_service, service_pc, message, response,
                sentLog, consumedLog, pushedLog, recvLog, timeouts>>

modalVars == <<message_queue, response_queue, counter, modal_pc, modal_ret,
               modal_service_pc, modal_msg, tick_avail, tick_got, stop_tick,
               sendLog, modal_consumedLog, modal_pushedLog, reportLog,
               modal_timeouts>>

cliVars == <<cli_message_queue, cli_response_queue, cli_pc, responses,
             cli_result, cli_service_pc, cli_i, cli_msg, cli_consumedLog,
             cli_pushedLog>>

phaseVars == <<arch_ran, arch_reports, arch_ret, test_ran, test_reports,
               test_ret, test_pc>>

vars == <<phaseVars, bridgeVars, modalVars, cliVars>>

(***************************************************************************)
(* Bounds of the model.                                                    *)
(***************************************************************************)
MaxSend == 3
MaxTimeouts == 2

\* The commands the host may pass to send_message: the two the service
\* knows and two it does not.
Commands == {"ping", "stop", "xyz", "ping_1"}

None == <<>>
Some(v) == <<v>>

(***************************************************************************)
(* queue.Queue                                                             *)
(***************************************************************************)
\* Mutant of put: the item goes to the front of the queue.
put_front(q, item) == <<item>> \o q

\* Queue.put on an unbounded queue: appends, never blocks.
put(q, item) == Append(q, item)

\* Queue.empty()
empty(q) == q = <<>>

\* Queue.get_nowait() / a get() that finds an item: the head leaves the queue.
get_item(q) == Head(q)

\* Mutant of get_rest: the item is read and stays queued.
get_rest_peek(q) == q

get_rest(q) == Tail(q)

(***************************************************************************)
(* Bridge test: the service thread                                         *)
(***************************************************************************)
\* Mutant of Respond: the "ping" branch is missing.
Respond_NoPing(m) ==
    IF m = "stop" THEN "stopped" ELSE "unknown: " \o m

\* Mutant of Respond: the else branch echoes the command untagged.
Respond_Echo(m) ==
    IF m = "ping" THEN "pong"
    ELSE IF m = "stop" THEN "stopped"
    ELSE m

\* The if/elif/else of simulated_async_service.
Respond(m) ==
    IF m = "ping" THEN "pong"
    ELSE IF m = "stop" THEN "stopped"
    ELSE "unknown: " \o m

\* Mutant of PcAfter: the `break` is missing.
PcAfter_NoBreak(m) == "get"

\* `break` after the stop response; every other branch falls through to the
\* top of `while True`.
PcAfter(m) == IF m = "stop" THEN "Stopped" ELSE "get"

\* Mutant of AfterTimeout: a timeout ends the thread.
AfterTimeout_Break(pc) == "Stopped"

\* `except queue.Empty: continue` (bridge), `except: continue` (modal): the
\* thread is back at the top of `while True`.
AfterTimeout(pc) == "get"

\* threading.Thread(target=simulated_async_service).start()
StartService ==
    /\ service_pc = "NotStarted"
    /\ service_pc' = "get"
    /\ UNCHANGED <<phaseVars, modalVars, cliVars, to_service, from_service, message, response,
                   sentLog, consumedLog, pushedLog, recvLog, timeouts>>

\* message = to_service.get(timeout=1), an item being there.
ServiceGet ==
    /\ service_pc = "get"
    /\ ~empty(to_service)
    /\ message' = Some(get_item(to_service))
    /\ to_service' = get_rest(to_service)
    /\ consumedLog' = Append(consumedLog, get_item(to_service))
    /\ service_pc' = "dispatch"
    /\ UNCHANGED <<phaseVars, modalVars, cliVars, from_service, response, sentLog, pushedLog, recvLog, timeouts>>

\* to_service.get(timeout=1) raising queue.Empty: `continue`.
ServiceTimeout ==
    /\ service_pc = "get"
    /\ empty(to_service)
    /\ timeouts < MaxTimeouts
    /\ timeouts' = timeouts + 1
    /\ service_pc' = AfterTimeout(service_pc)
    /\ UNCHANGED <<phaseVars, modalVars, cliVars, to_service, from_service, message, response,
                   sentLog, consumedLog, pushedLog, recvLog>>

\* The dispatch and from_service.put(response); for "stop", then `break`.
ServiceReply ==
    /\ service_pc = "dispatch"
    /\ from_service' = put(from_service, Respond(message[1]))
    /\ pushedLog' = Append(pushedLog, Respond(message[1]))
    /\ service_pc' = PcAfter(message[1])
    /\ message' = None
    /\ UNCHANGED <<phaseVars, modalVars, cliVars, to_service, response, sentLog, consumedLog, recvLog, timeouts>>

ServiceStep == ServiceGet \/ ServiceReply

(***************************************************************************)
(* Bridge test: the host's two functions                                   *)
(***************************************************************************)
\* send_message(msg): to_service.put(msg). The thread is started before the
\* first call.
send_message(msg) ==
    /\ service_pc # "NotStarted"
    /\ Len(sentLog) < MaxSend
    /\ to_service' = put(to_service, msg)
    /\ sentLog' = Append(sentLog, msg)
    /\ UNCHANGED <<phaseVars, modalVars, cliVars, from_service, service_pc, message, response,
                   consumedLog, pushedLog, recvLog, timeouts>>

\* Mutant of RecvResult: the call reads the command queue.
RecvResult_WrongQueue(q) ==
    IF empty(to_service) THEN None ELSE Some(get_item(to_service))

\* What try_recv_response returns: get_nowait's item, or None on queue.Empty.
RecvResult(q) == IF empty(q) THEN None ELSE Some(get_item(q))
RecvRest(q) == IF empty(q) THEN q ELSE get_rest(q)

try_recv_response ==
    /\ service_pc # "NotStarted"
    /\ response' = RecvResult(from_service)
    /\ from_service' = RecvRest(from_service)
    /\ recvLog' = recvLog \o RecvResult(from_service)
    /\ UNCHANGED <<phaseVars, modalVars, cliVars, to_service, service_pc, message,
                   sentLog, consumedLog, pushedLog, timeouts>>

Send == \E msg \in Commands : send_message(msg)

(***************************************************************************)
(* Python str operations used by the modal service                         *)
(***************************************************************************)
\* s.startswith(p)
startswith(s, p) == Len(s) >= Len(p) /\ SubSeq(s, 1, Len(p)) = p

\* s.find(c) for a one-character c, counted from 1; 0 when c is not in s.
find(s, c) ==
    IF \E i \in 1..Len(s) : SubSeq(s, i, i) = c
    THEN CHOOSE i \in 1..Len(s) :
            /\ SubSeq(s, i, i) = c
            /\ \A j \in 1..(i - 1) : SubSeq(s, j, j) # c
    ELSE 0

\* s.split(c) for a one-character c: the list of fields.
RECURSIVE split(_, _)
split(s, c) ==
    IF find(s, c) = 0 THEN <<s>>
    ELSE <<SubSeq(s, 1, find(s, c) - 1)>>
            \o split(SubSeq(s, find(s, c) + 1, Len(s)), c)

(***************************************************************************)
(* Modal operator: CUTTLE_OT_simulate_modal                                *)
(***************************************************************************)
\* `self._counter % 10 == 0`, `self._counter >= 50`
PingEvery == 10
StopAfter == 50

\* Mutant of PingName: the counter itself names the ping.
PingName_Raw(c) == "ping_" \o ToString(c)

\* f"ping_{self._counter//10}"
PingName(c) == "ping_" \o ToString(c \div PingEvery)

\* Mutant of NextCounter: the counter is bumped twice a tick.
NextCounter_Twice(c) == c + 2

\* self._counter += 1
NextCounter(c) == c + 1

\* Mutant of StopCondition: the comparison is strict.
StopCondition_Strict(c) == c > StopAfter

\* `if self._counter >= 50`
StopCondition(c) == c >= StopAfter

\* Mutant of put_response: the service thread takes an item from a response
\* queue that holds one, and puts only on an empty one.
put_response_Take(q, r) == IF q = <<>> THEN q \o r ELSE Tail(q)

\* self._response_queue.put(...) / response_queue.put(...) in service(),
\* in the branch taken if any: the thread's only use of the response queue.
put_response(q, r) == q \o r

\* Mutant of ModalRespond: "stop" is answered like any unknown command,
\* with nothing.
ModalRespond_NoStopped(m) ==
    IF startswith(m, "ping")
    THEN IF Len(split(m, "_")) >= 2 THEN Some("pong_" \o split(m, "_")[2]) ELSE None
    ELSE None

\* The if/elif of service(): what it puts on the response queue for msg, if
\* anything. msg.split('_')[1] raises IndexError when msg has no '_', the
\* bare `except:` swallows it and nothing is put; a msg that is neither
\* ping... nor "stop" matches no branch.
ModalRespond(m) ==
    IF startswith(m, "ping")
    THEN IF Len(split(m, "_")) >= 2 THEN Some("pong_" \o split(m, "_")[2]) ELSE None
    ELSE IF m = "stop" THEN Some("stopped")
    ELSE None

\* `break` is reached only in the elif msg == "stop" branch.
ModalBreaks(m) == ~startswith(m, "ping") /\ m = "stop"

\* execute(): the queues, the counter, the service thread, the timer and
\* the modal handler.
Execute ==
    /\ modal_pc = "NotStarted"
    /\ message_queue' = <<>>
    /\ response_queue' = <<>>
    /\ counter' = 0
    /\ modal_service_pc' = "get"
    /\ modal_pc' = "idle"
    /\ modal_ret' = "RUNNING_MODAL"
    /\ UNCHANGED <<phaseVars, bridgeVars, cliVars, modal_msg, tick_avail, tick_got,
                   stop_tick, sendLog, modal_consumedLog, modal_pushedLog,
                   reportLog, modal_timeouts>>

\* msg = self._message_queue.get(timeout=1), an item being there.
ModalServiceGet ==
    /\ modal_service_pc = "get"
    /\ ~empty(message_queue)
    /\ modal_msg' = Some(get_item(message_queue))
    /\ message_queue' = get_rest(message_queue)
    /\ modal_consumedLog' = Append(modal_consumedLog, get_item(message_queue))
    /\ modal_service_pc' = "dispatch"
    /\ UNCHANGED <<phaseVars, bridgeVars, cliVars, response_queue, counter, modal_pc,
                   modal_ret, tick_avail, tick_got, stop_tick, sendLog,
                   modal_pushedLog, reportLog, modal_timeouts>>

\* get(timeout=1) raising queue.Empty: `except: continue`.
ModalServiceTimeout ==
    /\ modal_service_pc = "get"
    /\ empty(message_queue)
    /\ modal_timeouts < MaxTimeouts
    /\ modal_timeouts' = modal_timeouts + 1
    /\ modal_service_pc' = AfterTimeout(modal_service_pc)
    /\ UNCHANGED <<phaseVars, bridgeVars, cliVars, message_queue, response_queue, counter,
                   modal_pc, modal_ret, modal_msg, tick_avail,
                   tick_got, stop_tick, sendLog, modal_consumedLog,
                   modal_pushedLog, reportLog>>

\* The dispatch on msg and the put of its response, then `break` or the next
\* iteration of `while True`.
ModalServiceReply ==
    /\ modal_service_pc = "dispatch"
    /\ response_queue' = put_response(response_queue, ModalRespond(modal_msg[1]))
    /\ modal_pushedLog' = modal_pushedLog \o ModalRespond(modal_msg[1])
    /\ modal_service_pc' = IF ModalBreaks(modal_msg[1]) THEN "Stopped" ELSE "get"
    /\ modal_msg' = None
    /\ UNCHANGED <<phaseVars, bridgeVars, cliVars, message_queue, counter, modal_pc,
                   modal_ret, tick_avail, tick_got, stop_tick, sendLog,
                   modal_consumedLog, reportLog, modal_timeouts>>

\* A put of any command on the queue the service thread reads: the thread
\* takes whatever is on self._message_queue, whoever put it.
ModalPut(m) ==
    /\ modal_service_pc # "NotStarted"
    /\ Len(sendLog) < MaxSend
    /\ message_queue' = put(message_queue, m)
    /\ sendLog' = Append(sendLog, m)
    /\ UNCHANGED <<phaseVars, bridgeVars, cliVars, response_queue, counter, modal_pc,
                   modal_ret, modal_service_pc, modal_msg, tick_avail, tick_got,
                   stop_tick, modal_consumedLog, modal_pushedLog, reportLog,
                   modal_timeouts>>

ModalSend == \E m \in Commands : ModalPut(m)

\* modal() on a TIMER event, up to the test of the response queue:
\* `if self._response_queue and not self._response_queue.empty()`.
ModalTimer ==
    /\ modal_pc = "idle"
    /\ tick_avail' = Len(response_queue)
    /\ tick_got' = 0
    /\ modal_pc' = IF ~empty(response_queue) THEN "get_nowait" ELSE "count"
    /\ UNCHANGED <<phaseVars, bridgeVars, cliVars, message_queue, response_queue, counter,
                   modal_ret, modal_service_pc, modal_msg, stop_tick, sendLog,
                   modal_consumedLog, modal_pushedLog, reportLog, modal_timeouts>>

\* response = self._response_queue.get_nowait(); self.report(...); a raise
\* is passed over by `except: pass`.
ModalGetNowait ==
    /\ modal_pc = "get_nowait"
    /\ IF empty(response_queue)
       THEN UNCHANGED <<response_queue, reportLog, tick_got>>
       ELSE /\ response_queue' = get_rest(response_queue)
            /\ reportLog' = Append(reportLog, get_item(response_queue))
            /\ tick_got' = tick_got + 1
    /\ modal_pc' = "count"
    /\ UNCHANGED <<phaseVars, bridgeVars, cliVars, message_queue, counter, modal_ret,
                   modal_service_pc, modal_msg, tick_avail, stop_tick, sendLog,
                   modal_consumedLog, modal_pushedLog, modal_timeouts>>

\* self._counter += 1 and the periodic ping.
ModalCount ==
    /\ modal_pc = "count"
    /\ counter' = NextCounter(counter)
    /\ IF counter' % PingEvery = 0
       THEN /\ message_queue' = put(message_queue, PingName(counter'))
            /\ sendLog' = Append(sendLog, PingName(counter'))
       ELSE UNCHANGED <<message_queue, sendLog>>
    /\ modal_pc' = "stop"
    /\ UNCHANGED <<phaseVars, bridgeVars, cliVars, response_queue, modal_ret,
                   modal_service_pc, modal_msg, tick_avail, tick_got, stop_tick,
                   modal_consumedLog, modal_pushedLog, reportLog, modal_timeouts>>

\* `if self._counter >= 50`: put "stop" and return FINISHED; else the tick
\* ends with PASS_THROUGH.
ModalStop ==
    /\ modal_pc = "stop"
    /\ IF StopCondition(counter)
       THEN /\ message_queue' = put(message_queue, "stop")
            /\ sendLog' = Append(sendLog, "stop")
            /\ stop_tick' = counter
            /\ modal_ret' = "FINISHED"
            /\ modal_pc' = "finished"
       ELSE /\ UNCHANGED <<message_queue, sendLog, stop_tick>>
            /\ modal_ret' = "PASS_THROUGH"
            /\ modal_pc' = "idle"
    /\ UNCHANGED <<phaseVars, bridgeVars, cliVars, response_queue, counter,
                   modal_service_pc, modal_msg, tick_avail, tick_got,
                   modal_consumedLog, modal_pushedLog, reportLog, modal_timeouts>>

\* modal() on an event that is not TIMER.
ModalOtherEvent ==
    /\ modal_pc = "idle"
    /\ modal_ret' = "PASS_THROUGH"
    /\ UNCHANGED <<phaseVars, bridgeVars, cliVars, message_queue, response_queue, counter,
                   modal_pc, modal_service_pc, modal_msg, tick_avail, tick_got,
                   stop_tick, sendLog, modal_consumedLog, modal_pushedLog,
                   reportLog, modal_timeouts>>

(***************************************************************************)
(* CLI test: the modal operator pattern of test_cuttle_in_blender          *)
(***************************************************************************)
\* `for i in range(3)`
ServiceIterations == 3

\* The three puts of the test, in order, and the list it expects back.
CliCommands == <<"ping_1", "ping_2", "stop">>
expected == <<"pong_1", "pong_2", "stopped">>

\* Mutant of CliLoopPc: the loop is `while True`, as in the modal operator.
CliLoopPc_Forever(i) == "get"

\* The end of the i-th iteration of `for i in range(3)`, one that did not
\* break: the thread returns when the range is exhausted.
CliLoopPc(i) == IF i >= ServiceIterations THEN "Stopped" ELSE "get"

\* threading.Thread(target=service, daemon=True).start()
CliStart ==
    /\ cli_pc = "start"
    /\ cli_service_pc' = "get"
    /\ cli_pc' = "put1"
    /\ UNCHANGED <<phaseVars, bridgeVars, modalVars, cli_message_queue, cli_response_queue,
                   responses, cli_result, cli_i, cli_msg, cli_consumedLog,
                   cli_pushedLog>>

\* message_queue.put("ping_1"), put("ping_2"), put("stop").
CliPut ==
    \E k \in 1..3 :
        /\ cli_pc = <<"put1", "put2", "put3">>[k]
        /\ cli_message_queue' = put(cli_message_queue, CliCommands[k])
        /\ cli_pc' = <<"put2", "put3", "sleep">>[k]
        /\ UNCHANGED <<phaseVars, bridgeVars, modalVars, cli_response_queue, responses,
                       cli_result, cli_service_pc, cli_i, cli_msg,
                       cli_consumedLog, cli_pushedLog>>

\* time.sleep(0.1) returning, and responses = [].
CliSleep ==
    /\ cli_pc = "sleep"
    /\ responses' = <<>>
    /\ cli_pc' = "empty"
    /\ UNCHANGED <<phaseVars, bridgeVars, modalVars, cli_message_queue, cli_response_queue,
                   cli_result, cli_service_pc, cli_i, cli_msg, cli_consumedLog,
                   cli_pushedLog>>

\* `while not response_queue.empty()`, and past the loop the comparison
\* with `expected`.
CliEmpty ==
    /\ cli_pc = "empty"
    /\ IF ~empty(cli_response_queue)
       THEN /\ cli_pc' = "get_nowait"
            /\ UNCHANGED cli_result
       ELSE /\ cli_pc' = "done"
            /\ cli_result' = IF responses = expected THEN Some("PASS") ELSE Some("FAIL")
    /\ UNCHANGED <<phaseVars, bridgeVars, modalVars, cli_message_queue, cli_response_queue,
                   responses, cli_service_pc, cli_i, cli_msg, cli_consumedLog,
                   cli_pushedLog>>

\* responses.append(response_queue.get_nowait()); a raise ends the test in
\* the outer `except Exception`, FAIL.
CliGetNowait ==
    /\ cli_pc = "get_nowait"
    /\ IF empty(cli_response_queue)
       THEN /\ cli_pc' = "done"
            /\ cli_result' = Some("FAIL")
            /\ UNCHANGED <<cli_response_queue, responses>>
       ELSE /\ cli_pc' = "empty"
            /\ responses' = Append(responses, get_item(cli_response_queue))
            /\ cli_response_queue' = get_rest(cli_response_queue)
            /\ UNCHANGED cli_result
    /\ UNCHANGED <<phaseVars, bridgeVars, modalVars, cli_message_queue, cli_service_pc,
                   cli_i, cli_msg, cli_consumedLog, cli_pushedLog>>

\* msg = message_queue.get(timeout=1), an item being there.
CliServiceGet ==
    /\ cli_service_pc = "get"
    /\ ~empty(cli_message_queue)
    /\ cli_msg' = Some(get_item(cli_message_queue))
    /\ cli_message_queue' = get_rest(cli_message_queue)
    /\ cli_consumedLog' = Append(cli_consumedLog, get_item(cli_message_queue))
    /\ cli_service_pc' = "dispatch"
    /\ UNCHANGED <<phaseVars, bridgeVars, modalVars, cli_response_queue, cli_pc, responses,
                   cli_result, cli_i, cli_pushedLog>>

\* get(timeout=1) raising queue.Empty: `except: continue`, which ends this
\* iteration of the for loop.
CliServiceTimeout ==
    /\ cli_service_pc = "get"
    /\ empty(cli_message_queue)
    /\ cli_i' = cli_i + 1
    /\ cli_service_pc' = CliLoopPc(cli_i + 1)
    /\ UNCHANGED <<phaseVars, bridgeVars, modalVars, cli_message_queue, cli_response_queue,
                   cli_pc, responses, cli_result, cli_msg, cli_consumedLog,
                   cli_pushedLog>>

\* The dispatch on msg and the put of its response, then `break` or the end
\* of the iteration.
CliServiceReply ==
    /\ cli_service_pc = "dispatch"
    /\ cli_response_queue' = put_response(cli_response_queue, ModalRespond(cli_msg[1]))
    /\ cli_pushedLog' = cli_pushedLog \o ModalRespond(cli_msg[1])
    /\ cli_i' = IF ModalBreaks(cli_msg[1]) THEN cli_i ELSE cli_i + 1
    /\ cli_service_pc' = IF ModalBreaks(cli_msg[1]) THEN "Stopped"
                         ELSE CliLoopPc(cli_i + 1)
    /\ cli_msg' = None
    /\ UNCHANGED <<phaseVars, bridgeVars, modalVars, cli_message_queue, cli_pc, responses,
                   cli_result, cli_consumedLog>>

\* The phases of execute, in the order of its try blocks.
ExecutePhases == <<"rust_core", "simulated_bridge", "file_logging">>

\* The phases of test_cuttle_in_blender, in the order of its try blocks; the
\* first is the import and registration guarded by the outer try.
TestPhases == <<"register", "rust_core", "simulated_bridge", "file_logging",
                "modal_pattern", "blender_api">>

\* Mutant of PhaseAborts: a failed phase does not end the run.
PhaseAborts_Never(ok) == FALSE

\* `except Exception as e: ...; return {"CANCELLED"}` / `return False`: the
\* handler of a phase that raised returns from the function.
PhaseAborts(ok) == ~ok

\* `print("PASS: ...")` at the end of a try block, `print(f"FAIL: ...")` in
\* its handler.
PhaseReport(ok) == IF ok THEN "PASS" ELSE "FAIL"

\* One try block of execute: the phase either returns or raises.
ArchPhase ==
    /\ arch_ret = "NotReturned"
    /\ Len(arch_ran) < Len(ExecutePhases)
    /\ \E ok \in BOOLEAN :
        /\ arch_ran' = Append(arch_ran, ok)
        /\ arch_reports' = Append(arch_reports, PhaseReport(ok))
        /\ arch_ret' = IF PhaseAborts(ok) THEN "CANCELLED" ELSE arch_ret
    /\ UNCHANGED <<bridgeVars, modalVars, cliVars, test_ran, test_reports,
                   test_ret, test_pc>>

\* self.report({"INFO"}, "SUCCESS: ..."); return {"FINISHED"}
ArchReturn ==
    /\ arch_ret = "NotReturned"
    /\ Len(arch_ran) = Len(ExecutePhases)
    /\ arch_reports' = Append(arch_reports, "SUCCESS")
    /\ arch_ret' = "FINISHED"
    /\ UNCHANGED <<bridgeVars, modalVars, cliVars, arch_ran, test_ran,
                   test_reports, test_ret, test_pc>>

\* One phase of test_cuttle_in_blender: the phase either passes or fails.
TestPhase ==
    /\ test_pc = "try"
    /\ Len(test_ran) < Len(TestPhases)
    /\ \E ok \in BOOLEAN :
        /\ test_ran' = Append(test_ran, ok)
        /\ test_reports' = Append(test_reports, PhaseReport(ok))
        /\ IF PhaseAborts(ok)
           THEN test_ret' = "False" /\ test_pc' = "finally"
           ELSE UNCHANGED <<test_ret, test_pc>>
    /\ UNCHANGED <<bridgeVars, modalVars, cliVars, arch_ran, arch_reports,
                   arch_ret>>

\* print("SUCCESS: ALL CUTTLE TESTS PASSED!"); return True
TestReturn ==
    /\ test_pc = "try"
    /\ Len(test_ran) = Len(TestPhases)
    /\ test_reports' = Append(test_reports, "SUCCESS")
    /\ test_ret' = "True"
    /\ test_pc' = "finally"
    /\ UNCHANGED <<bridgeVars, modalVars, cliVars, arch_ran, arch_reports,
                   arch_ret, test_ran>>

\* finally: blender_test_addon.unregister(), any failure of it swallowed
TestFinally ==
    /\ test_pc = "finally"
    /\ test_pc' = "done"
    /\ UNCHANGED <<bridgeVars, modalVars, cliVars, arch_ran, arch_reports,
                   arch_ret, test_ran, test_reports, test_ret>>

Init ==
    /\ arch_ran = <<>>
    /\ arch_reports = <<>>
    /\ arch_ret = "NotReturned"
    /\ test_ran = <<>>
    /\ test_reports = <<>>
    /\ test_ret = "NotReturned"
    /\ test_pc = "try"
    /\ to_service = <<>>
    /\ from_service = <<>>
    /\ service_pc = "NotStarted"
    /\ message = None
    /\ response = None
    /\ sentLog = <<>>
    /\ consumedLog = <<>>
    /\ pushedLog = <<>>
    /\ recvLog = <<>>
    /\ timeouts = 0
    /\ message_queue = <<>>
    /\ response_queue = <<>>
    /\ counter = 0
    /\ modal_pc = "NotStarted"
    /\ modal_ret = "NotCalled"
    /\ modal_service_pc = "NotStarted"
    /\ modal_msg = None
    /\ tick_avail = 0
    /\ tick_got = 0
    /\ stop_tick = 0
    /\ sendLog = <<>>
    /\ modal_consumedLog = <<>>
    /\ modal_pushedLog = <<>>
    /\ reportLog = <<>>
    /\ modal_timeouts = 0
    /\ cli_message_queue = <<>>
    /\ cli_response_queue = <<>>
    /\ cli_pc = "start"
    /\ responses = <<>>
    /\ cli_result = None
    /\ cli_service_pc = "NotStarted"
    /\ cli_i = 0
    /\ cli_msg = None
    /\ cli_consumedLog = <<>>
    /\ cli_pushedLog = <<>>

\* The bridge test.
Next ==
    \/ StartService
    \/ ServiceGet
    \/ ServiceTimeout
    \/ ServiceReply
    \/ Send
    \/ try_recv_response

Spec == Init /\ [][Next]_vars

\* The service thread is scheduled whenever it can take a step, and the host
\* keeps polling.
FairSpec ==
    /\ Spec
    /\ WF_vars(StartService)
    /\ WF_vars(ServiceStep)
    /\ WF_vars(try_recv_response)

\* The modal operator.
ModalNext ==
    \/ Execute
    \/ ModalServiceGet
    \/ ModalServiceTimeout
    \/ ModalServiceReply
    \/ ModalTimer
    \/ ModalGetNowait
    \/ ModalCount
    \/ ModalStop
    \/ ModalOtherEvent

SpecModal == Init /\ [][ModalNext]_vars

\* One tick of the modal operator, from the TIMER event to its return.
ModalTick == ModalTimer \/ ModalGetNowait \/ ModalCount \/ ModalStop

\* The host keeps delivering TIMER events to a running modal operator and
\* lets a tick run to its end; nothing is assumed of the service thread.
FairSpecModal ==
    /\ SpecModal
    /\ WF_vars(Execute)
    /\ WF_vars(ModalTick)

\* The CLI test of the modal operator pattern.
CliNext ==
    \/ CliStart
    \/ CliPut
    \/ CliSleep
    \/ CliEmpty
    \/ CliGetNowait
    \/ CliServiceGet
    \/ CliServiceTimeout
    \/ CliServiceReply

SpecCli == Init /\ [][CliNext]_vars

\* The modal operator's service thread, fed any command.
ModalServiceNext ==
    \/ Execute
    \/ ModalSend
    \/ ModalServiceGet
    \/ ModalServiceTimeout
    \/ ModalServiceReply

SpecModalService == Init /\ [][ModalServiceNext]_vars

\* Either service thread with its clients: the bridge test's, or the modal
\* operator's.
ServicesNext ==
    \/ modal_service_pc = "NotStarted" /\ Next
    \/ service_pc = "NotStarted" /\ ModalServiceNext

SpecServices == Init /\ [][ServicesNext]_vars

\* Either host that polls a response queue with empty() and get_nowait():
\* the modal operator, or the CLI test.
PollersNext ==
    \/ cli_pc = "start" /\ ModalNext
    \/ modal_pc = "NotStarted" /\ CliNext

SpecPollers == Init /\ [][PollersNext]_vars

\* The two phase runners.
PhaseNext ==
    \/ ArchPhase
    \/ ArchReturn
    \/ TestPhase
    \/ TestReturn
    \/ TestFinally

SpecPhases == Init /\ [][PhaseNext]_vars

(***************************************************************************)
(* Helpers of the properties                                               *)
(***************************************************************************)
Range(s) == {s[i] : i \in 1..Len(s)}
Count(s, v) == Cardinality({i \in 1..Len(s) : s[i] = v})
Take(s, n) == SubSeq(s, 1, IF n < Len(s) THEN n ELSE Len(s))
IsPrefix(a, b) == Len(a) <= Len(b) /\ SubSeq(b, 1, Len(a)) = a
InFlight(v) == IF message = Some(v) THEN 1 ELSE 0

(***************************************************************************)
(* Properties of the bridge test                                           *)
(***************************************************************************)

\* C1 (as stated): every "ping" ever sent with send_message is eventually
\* answered: for the i-th sent command, if it is "ping" then eventually the
\* service has pushed as many "pong" as there are "ping" among the first i
\* sent commands. Fails for a "ping" sent behind a "stop".
C1_EveryPingAnswered ==
    \A i \in 1..MaxSend :
        (Len(sentLog) >= i /\ sentLog[i] = "ping")
            ~> (Count(pushedLog, "pong") >= Count(Take(sentLog, i), "ping"))

\* C1 (amended): the service pushes exactly one "pong" per "ping" it has
\* consumed (the one being handled excepted), never more; and a "ping" sent
\* with no "stop" sent before it is the i-th command consumed, its "pong" is
\* the i-th response, and under fair scheduling of the service thread and a
\* host that keeps polling, try_recv_response eventually returns it.
C1_PingPong ==
    /\ [](Count(pushedLog, "pong") + InFlight("ping") = Count(consumedLog, "ping"))
    /\ \A i \in 1..MaxSend :
        (/\ Len(sentLog) >= i
         /\ sentLog[i] = "ping"
         /\ "stop" \notin Range(Take(sentLog, i - 1)))
            ~> (Len(recvLog) >= i /\ recvLog[i] = "pong")

\* C1 witness: a "ping" was sent as the second command, after an unknown
\* one, and its "pong" came back from try_recv_response.
C1_Witness ==
    /\ Len(sentLog) >= 2 /\ sentLog[1] = "xyz" /\ sentLog[2] = "ping"
    /\ Len(recvLog) >= 2 /\ recvLog[2] = "pong"
    /\ response = Some("pong")

\* C2: the service pushes at most one "stopped"; once it is pushed the
\* thread has terminated, "stopped" is the last response ever pushed (the
\* push history never changes again, whatever is enqueued later); and under
\* fair scheduling of the service thread a sent "stop" does yield it.
C2_GracefulStop ==
    /\ [](Count(pushedLog, "stopped") <= 1)
    /\ []("stopped" \in Range(pushedLog)
            => /\ service_pc = "Stopped"
               /\ pushedLog[Len(pushedLog)] = "stopped")
    /\ [][("stopped" \in Range(pushedLog))
            => /\ pushedLog' = pushedLog
               /\ consumedLog' = consumedLog
               /\ service_pc' = "Stopped"]_vars
    /\ ("stop" \in Range(sentLog)) ~> (Count(pushedLog, "stopped") = 1)

\* C2 witness: "stopped" was pushed, the thread has ended, and commands
\* enqueued after the stop sit in the command channel.
C2_Witness ==
    /\ service_pc = "Stopped"
    /\ pushedLog # <<>> /\ pushedLog[Len(pushedLog)] = "stopped"
    /\ Len(to_service) >= 2
    /\ Len(sentLog) = Len(consumedLog) + Len(to_service)

\* C3: the service consumes commands in the order they were sent, the i-th
\* response pushed is the response to the i-th command consumed, and the
\* host's try_recv_response returns responses in the order they were pushed.
C3_OrderPreserved ==
    /\ IsPrefix(consumedLog, sentLog)
    /\ Len(pushedLog) <= Len(consumedLog)
    /\ \A i \in 1..Len(pushedLog) : pushedLog[i] = Respond(consumedLog[i])
    /\ IsPrefix(recvLog, pushedLog)

\* C3 witness: two different commands A, B were sent in that order and the
\* host received resp(A) and then resp(B).
C3_Witness ==
    /\ Len(sentLog) >= 2 /\ sentLog[1] # sentLog[2]
    /\ Len(recvLog) >= 2
    /\ recvLog[1] = Respond(sentLog[1])
    /\ recvLog[2] = Respond(sentLog[2])

\* C4: whenever the service finishes handling a command m that is neither
\* "ping" nor "stop", that step pushes exactly one response, "unknown: m",
\* and leaves the service at the top of its loop (Running), from where it
\* answers later commands.
C4_UnknownAnswered ==
    [][(/\ service_pc = "dispatch"
        /\ message[1] \notin {"ping", "stop"}
        /\ service_pc' # service_pc)
        => /\ pushedLog' = Append(pushedLog, "unknown: " \o message[1])
           /\ from_service' = Append(from_service, "unknown: " \o message[1])
           /\ service_pc' = "get"]_vars

\* C4 witness: "xyz" was answered with "unknown: xyz" and a later command
\* was answered after it.
C4_Witness ==
    /\ Len(pushedLog) >= 2
    /\ consumedLog[1] = "xyz"
    /\ pushedLog[1] = "unknown: xyz"
    /\ pushedLog[2] = "pong"

\* C8: a try_recv_response call on an empty response channel returns None
\* and changes neither channel nor the service; and an empty response
\* channel stays empty (so calls keep returning None) until the service
\* pushes a response.
C8_NonBlockingPoll ==
    [][/\ (empty(from_service) /\ try_recv_response)
            => /\ response' = None
               /\ UNCHANGED <<to_service, from_service, service_pc, message,
                              sentLog, consumedLog, pushedLog, recvLog>>
       /\ (empty(from_service) /\ ~empty(from_service'))
            => pushedLog' # pushedLog]_vars

\* C8 witness: the host received a response, drained the channel, and a
\* further call returned None.
C8_Witness ==
    /\ recvLog # <<>>
    /\ empty(from_service)
    /\ response = None

\* C9: for each channel, everything ever pushed is what was delivered to
\* its consumer followed by what is still queued.
C9_Conservation ==
    /\ sentLog = consumedLog \o to_service
    /\ pushedLog = recvLog \o from_service

\* C9 witness: both channels hold delivered and still-queued messages.
C9_Witness ==
    /\ consumedLog # <<>> /\ to_service # <<>>
    /\ recvLog # <<>> /\ from_service # <<>>

(***************************************************************************)
(* Properties of the modal operator                                        *)
(***************************************************************************)
\* The responses to everything a full run of the modal operator sends.
AllModalResponses ==
    [k \in 1..(StopAfter \div PingEvery) |-> "pong_" \o ToString(k)] \o <<"stopped">>

\* C5: when the modal operator has finished, the responses it reported over
\* its ticks are [pong_1, ..., pong_5, stopped], "stopped" included.
C5_ModalObservesAll ==
    modal_pc = "finished" => reportLog = AllModalResponses

\* What the code does instead, in every run: a finished modal operator has
\* reported neither "stopped" nor the response to the ping of its last tick.
ModalNeverObservesStopped ==
    /\ "stopped" \notin Range(reportLog)
    /\ ("pong_" \o ToString(StopAfter \div PingEvery)) \notin Range(reportLog)
    /\ Len(reportLog) < StopAfter \div PingEvery

\* C6: the modal operator is finished only if it has observed "stopped" or
\* at least one tick of grace has passed since the tick that sent "stop".
C6_FinishedAfterStopped ==
    modal_pc = "finished"
        => ("stopped" \in Range(reportLog) \/ counter > stop_tick)

\* C7: once a tick is past its drain step, it has taken every response that
\* was queued when the tick began.
C7_TickDrainsAll ==
    modal_pc \in {"count", "stop"} => tick_got >= tick_avail

(***************************************************************************)
(* Properties of the service threads                                       *)
(***************************************************************************)
Last(s) == s[Len(s)]

\* A thread that has left its loop consumed "stop" last and pushed
\* "stopped" last.
StoppedByStop(pc, consumed, pushed) ==
    pc = "Stopped"
        => /\ consumed # <<>> /\ Last(consumed) = "stop"
           /\ pushed # <<>> /\ Last(pushed) = "stopped"

BridgeLifecycle == StoppedByStop(service_pc, consumedLog, pushedLog)
ModalLifecycle == StoppedByStop(modal_service_pc, modal_consumedLog, modal_pushedLog)
CliLifecycle == StoppedByStop(cli_service_pc, cli_consumedLog, cli_pushedLog)

\* C10: each of the three service threads leaves its loop only after it has
\* consumed "stop" and pushed "stopped".
C10_Lifecycle ==
    /\ BridgeLifecycle
    /\ ModalLifecycle
    /\ CliLifecycle

(***************************************************************************)
(* Properties of the CLI test                                              *)
(***************************************************************************)
\* C11: when the CLI test's drain loop has ended, the responses it drained
\* are exactly [pong_1, pong_2, stopped].
C11_CliDrainsExpected ==
    cli_pc = "done" => responses = expected

(***************************************************************************)
(* Stop liveness of the bridge service                                     *)
(***************************************************************************)
\* The j-th command sent is a "stop", and the service is still in its loop.
StopQueuedWhileRunning(j) ==
    /\ Len(sentLog) >= j
    /\ sentLog[j] = "stop"
    /\ service_pc # "Stopped"

\* The first j - 1 commands sent have been answered in order, the j-th
\* response is "stopped", and the thread has terminated.
DrainedToStop(j) ==
    /\ Len(sentLog) >= j
    /\ Len(pushedLog) >= j
    /\ \A i \in 1..(j - 1) : pushedLog[i] = Respond(sentLog[i])
    /\ pushedLog[j] = "stopped"
    /\ service_pc = "Stopped"

\* A service that is in its loop with something to do can take a step.
ServiceNotStuck ==
    (\/ service_pc = "dispatch"
     \/ (service_pc = "get" /\ ~empty(to_service)))
        => ENABLED ServiceStep

\* The first j - 1 commands sent have all been answered in order, "stopped"
\* has been pushed, and the thread has terminated.
AnsweredBeforeStop(j) ==
    /\ Len(sentLog) >= j
    /\ Len(pushedLog) >= j - 1
    /\ \A i \in 1..(j - 1) : pushedLog[i] = Respond(sentLog[i])
    /\ "stopped" \in Range(pushedLog)
    /\ service_pc = "Stopped"

\* C12 (as stated): whenever a "stop" is enqueued while the service is
\* Running, the service eventually answers every command enqueued before
\* that "stop", pushes "stopped" and terminates. Fails for a "stop"
\* enqueued behind an earlier "stop" and a command: that command is never
\* answered.
C12_EveryStopDrains ==
    \A j \in 1..MaxSend : StopQueuedWhileRunning(j) ~> AnsweredBeforeStop(j)

\* C12 (amended): whenever the first "stop" is enqueued, then under weak
\* fairness of the service thread the service eventually answers every
\* command enqueued before it, pushes "stopped" and terminates; and the
\* service is never stuck: in its loop with a command to handle it can
\* always take a step.
C12_StopLiveness ==
    /\ []ServiceNotStuck
    /\ \A j \in 1..MaxSend :
        (StopQueuedWhileRunning(j) /\ "stop" \notin Range(Take(sentLog, j - 1)))
            ~> DrainedToStop(j)

\* C12 witness: "stop" was sent third, behind two other commands; both were
\* answered, then "stopped" was pushed and the thread ended.
C12_Witness ==
    /\ DrainedToStop(3)
    /\ sentLog[1] = "ping" /\ sentLog[2] = "xyz"
    /\ pushedLog = <<"pong", "unknown: xyz", "stopped">>

(***************************************************************************)
(* Properties of the modal operator's poll loop                            *)
(***************************************************************************)
\* C13: once started by execute, the modal operator reaches Finished,
\* whatever the service thread does; it gets there in StopAfter ticks (the
\* counter never passes StopAfter); and once Finished it processes no
\* further tick: it stays Finished, puts no more commands, reports nothing
\* more and its counter no longer changes.
C13_PollLoopTerminates ==
    /\ (modal_pc # "NotStarted") ~> (modal_pc = "finished")
    /\ [](counter <= StopAfter)
    /\ [](modal_pc = "finished" => counter = StopAfter)
    /\ [][modal_pc = "finished"
            => /\ modal_pc' = "finished"
               /\ counter' = counter
               /\ sendLog' = sendLog
               /\ reportLog' = reportLog
               /\ modal_ret' = "FINISHED"]_vars

\* C13 witness: the modal operator is Finished while its service thread has
\* never taken a step: every command it sent is still queued.
C13_Witness ==
    /\ modal_pc = "finished"
    /\ modal_consumedLog = <<>>
    /\ message_queue = sendLog
    /\ Len(message_queue) = StopAfter \div PingEvery + 1

(***************************************************************************)
(* Properties of the phase runners                                         *)
(***************************************************************************)
\* What C14 asks of one runner: `ran` are the outcomes of the phases run so
\* far (in the fixed order of `phases`), `reports` what was reported, and
\* `failed`, `passed` whether it returned its failure or its success value.
PhaseDiscipline(phases, ran, reports, failed, passed) ==
    /\ Len(ran) <= Len(phases)
    /\ \A k \in 1..Len(ran) : \A j \in 1..(k - 1) : ran[j]
    /\ failed <=> (Len(ran) > 0 /\ ~ran[Len(ran)])
    /\ passed <=> (Len(ran) = Len(phases) /\ (\A k \in 1..Len(ran) : ran[k])
                   /\ Len(reports) = Len(ran) + 1)
    /\ ~(failed /\ passed)
    /\ \A k \in 1..Len(ran) : reports[k] = (IF ran[k] THEN "PASS" ELSE "FAIL")
    /\ Count(reports, "FAIL") = (IF failed THEN 1 ELSE 0)

\* C14: execute and test_cuttle_in_blender run their phases in fixed order,
\* run phase k only if every earlier phase passed, report FAIL and return
\* CANCELLED (False) at the first failing phase without running a later
\* one, and return FINISHED (True) if and only if all phases passed.
C14_PhaseAbort ==
    /\ PhaseDiscipline(ExecutePhases, arch_ran, arch_reports,
                       arch_ret = "CANCELLED", arch_ret = "FINISHED")
    /\ PhaseDiscipline(TestPhases, test_ran, test_reports,
                       test_ret = "False", test_ret = "True")

\* C14 witness: execute was cancelled by its second phase and never ran the
\* third; the CLI test returned False at its third phase.
C14_Witness ==
    /\ arch_ret = "CANCELLED"
    /\ arch_ran = <<TRUE, FALSE>>
    /\ arch_reports = <<"PASS", "FAIL">>
    /\ test_ret = "False"
    /\ test_ran = <<TRUE, TRUE, FALSE>>
    /\ test_pc = "done"

(***************************************************************************)
(* Properties of the modal operator's service thread                       *)
(***************************************************************************)
\* C15: the modal operator's service pushes a response for every command it
\* consumes: the responses pushed are as many as the commands consumed,
\* less the one being handled.
C15_EveryCommandAnswered ==
    Len(modal_pushedLog) =
        Len(modal_consumedLog) - (IF modal_msg = None THEN 0 ELSE 1)

(***************************************************************************)
(* Properties of the bridge after "stop"                                   *)
(***************************************************************************)
\* The service has processed a "stop".
StopProcessed == "stopped" \in Range(pushedLog)

\* C16: send_message can be called in every state in which the queues exist
\* (within the bound on sends), the service having stopped or not; once the
\* service has processed "stop" it has terminated, and from then on the
\* command channel only grows: nothing is consumed from it, nothing is
\* dropped from it (it holds exactly the commands sent and not consumed) and
\* no response is pushed any more.
C16_PostStopCommands ==
    /\ [](service_pc # "NotStarted" /\ Len(sentLog) < MaxSend
            => \A msg \in Commands : ENABLED send_message(msg))
    /\ [](StopProcessed
            => /\ service_pc = "Stopped"
               /\ IsPrefix(consumedLog, sentLog)
               /\ sentLog = consumedLog \o to_service)
    /\ [][StopProcessed
            => /\ IsPrefix(to_service, to_service')
               /\ consumedLog' = consumedLog
               /\ pushedLog' = pushedLog
               /\ service_pc' = "Stopped"]_vars

\* C16 witness: "ping" and "xyz" were sent after the service had processed
\* "stop"; both are in the command channel, unanswered.
C16_Witness ==
    /\ service_pc = "Stopped"
    /\ sentLog = <<"stop", "ping", "xyz">>
    /\ consumedLog = <<"stop">>
    /\ to_service = <<"ping", "xyz">>
    /\ pushedLog = <<"stopped">>
    /\ recvLog = <<"stopped">>

(***************************************************************************)
(* Properties of the modal operator's send policy and counter              *)
(***************************************************************************)
\* The pings of a run up to tick c: ping_k for every k with 10k <= c.
PingsUpTo(c) == [k \in 1..(c \div 10) |-> "ping_" \o ToString(k)]

\* C17: the commands the modal operator has enqueued are, at every moment,
\* ping_k for each tick 10k counted so far, in order, followed by "stop" if
\* it was sent; ping_k is put on the tick where the counter becomes 10k and
\* on no other; "stop" is put once, on tick 50, after ping_5; and over a
\* full run the commands are ping_1 .. ping_5, stop.
C17_SendPolicy ==
    /\ [](sendLog = PingsUpTo(counter)
                    \o (IF stop_tick > 0 THEN <<"stop">> ELSE <<>>))
    /\ [](stop_tick \in {0, 50})
    /\ [](stop_tick > 0 <=> modal_pc = "finished")
    /\ [](modal_pc = "finished"
            => sendLog = <<"ping_1", "ping_2", "ping_3", "ping_4", "ping_5",
                           "stop">>)
    /\ [][sendLog' # sendLog
            => \/ /\ modal_pc = "count"
                  /\ counter' % 10 = 0
                  /\ sendLog' = Append(sendLog,
                                       "ping_" \o ToString(counter' \div 10))
               \/ /\ modal_pc = "stop"
                  /\ counter = 50
                  /\ Last(sendLog) = "ping_5"
                  /\ sendLog' = Append(sendLog, "stop")]_vars
    /\ [][counter' # counter /\ counter' % 10 = 0
            => sendLog' = Append(sendLog, "ping_" \o ToString(counter' \div 10))]_vars

\* C17 witness: a full run; all six commands were sent, and the service has
\* consumed them all.
C17_Witness ==
    /\ modal_pc = "finished"
    /\ Len(sendLog) = 6
    /\ modal_consumedLog = sendLog
    /\ modal_service_pc = "Stopped"

\* The steps of one TIMER event through modal(): the test of the response
\* queue, the optional get_nowait, the count, the stop test and the return.
TickOrder(pc, pc2) ==
    \/ pc = "NotStarted" /\ pc2 = "idle"
    \/ pc = "idle" /\ pc2 \in {"get_nowait", "count"}
    \/ pc = "get_nowait" /\ pc2 = "count"
    \/ pc = "count" /\ pc2 = "stop"
    \/ pc = "stop" /\ pc2 \in {"idle", "finished"}

\* C18: the counter is 0 after execute; every TIMER event passes the count
\* exactly once and the count adds exactly 1; no other step changes the
\* counter, so it never decreases and the service thread never writes it;
\* an event that is not a TIMER returns PASS_THROUGH and leaves the counter
\* and both queues as they were.
C18_TickCounter ==
    /\ [](counter \in 0..50)
    /\ [](modal_pc \in {"NotStarted", "idle"}
          /\ modal_ret \in {"NotCalled", "RUNNING_MODAL"} => counter = 0)
    /\ [][modal_pc = "NotStarted" /\ modal_pc' # "NotStarted"
            => counter' = 0 /\ modal_ret' = "RUNNING_MODAL"]_vars
    /\ [][modal_pc' # modal_pc => TickOrder(modal_pc, modal_pc')]_vars
    /\ [][modal_pc = "count" /\ modal_pc' = "stop"
            => counter' = counter + 1]_vars
    /\ [][counter' # counter
            => modal_pc = "count" /\ modal_pc' = "stop"
               /\ modal_service_pc' = modal_service_pc
               /\ modal_msg' = modal_msg]_vars
    /\ [][modal_pc = "idle" /\ modal_pc' = "idle" /\ modal_ret' # modal_ret
            => /\ modal_ret' = "PASS_THROUGH"
               /\ counter' = counter
               /\ message_queue' = message_queue
               /\ response_queue' = response_queue]_vars

\* C18 witness: an event that is not a TIMER was handled before the first
\* tick; the counter is still 0, and the service thread is running.
C18_Witness ==
    /\ modal_pc = "idle"
    /\ modal_ret = "PASS_THROUGH"
    /\ counter = 0
    /\ modal_timeouts > 0

(***************************************************************************)
(* Properties of the service threads' timeouts                             *)
(***************************************************************************)
\* C19: a get that times out found the command channel empty and leaves
\* the command channel, the response channel and the histories of consumed
\* commands and pushed responses unchanged; the service was in its loop
\* and is in its loop afterwards, at the get again; a service that has
\* left its loop left it on a "stop". This holds of the bridge service and
\* of the modal operator's service.
C19_TimeoutNotAnError ==
    /\ [][timeouts' # timeouts
            => /\ timeouts' = timeouts + 1
               /\ empty(to_service)
               /\ to_service' = to_service
               /\ from_service' = from_service
               /\ consumedLog' = consumedLog
               /\ pushedLog' = pushedLog
               /\ service_pc = "get" /\ service_pc' = "get"]_vars
    /\ [][modal_timeouts' # modal_timeouts
            => /\ modal_timeouts' = modal_timeouts + 1
               /\ empty(message_queue)
               /\ message_queue' = message_queue
               /\ response_queue' = response_queue
               /\ modal_consumedLog' = modal_consumedLog
               /\ modal_pushedLog' = modal_pushedLog
               /\ modal_service_pc = "get"
               /\ modal_service_pc' = "get"]_vars
    /\ [](StoppedByStop(service_pc, consumedLog, pushedLog))
    /\ [](StoppedByStop(modal_service_pc, modal_consumedLog, modal_pushedLog))

\* C19 witness: the bridge service has timed out twice and is in its loop;
\* the one "ping" sent was consumed and answered.
C19_Witness ==
    /\ timeouts >= 2
    /\ service_pc = "get"
    /\ sentLog = <<"ping">>
    /\ pushedLog = <<"pong">>

(***************************************************************************)
(* The bridge service's responses as a function of its commands            *)
(***************************************************************************)
\* The response the bridge service owes to a command.
resp(m) ==
    CASE m = "ping" -> "pong"
      [] m = "stop" -> "stopped"
      [] OTHER -> "unknown: " \o m

\* C20: in every reachable state, whatever the interleaving and however
\* many timeouts there were, the responses the bridge service has pushed
\* are resp applied, in order, to the commands it has consumed, less the
\* one it is handling.
C20_ResponsesFunctionOfConsumed ==
    pushedLog = [i \in 1..(Len(consumedLog) - (IF message = None THEN 0 ELSE 1))
                    |-> resp(consumedLog[i])]

\* C20 witness: three commands consumed and answered, with timeouts in the
\* run.
C20_Witness ==
    /\ timeouts >= 1
    /\ message = None
    /\ consumedLog = <<"xyz", "ping_1", "ping">>
    /\ pushedLog = <<"unknown: xyz", "unknown: ping_1", "pong">>

(***************************************************************************)
(* Properties of the order of receive and send within a tick               *)
(***************************************************************************)
\* The tick the modal handler is in while it runs: the ticks counted so
\* far, plus this one until the count has been done.
CurrentTick == IF modal_pc \in {"get_nowait", "count"} THEN counter + 1 ELSE counter

\* C21: a response is reported only by the tick's get_nowait, which comes
\* before the tick's count and send: the step reports one response pong_k,
\* on a tick no earlier than 10k+1 (ping_k went out on tick 10k), it sends
\* nothing and counts nothing, and it is the only report of its tick.
C21_ReceiveBeforeSend ==
    /\ [](tick_got \in {0, 1})
    /\ [](\A i \in 1..Len(reportLog) : \E k \in 1..5 :
            /\ reportLog[i] = "pong_" \o ToString(k)
            /\ CurrentTick >= 10 * k + 1)
    /\ [][reportLog' # reportLog
            => /\ modal_pc = "get_nowait" /\ modal_pc' = "count"
               /\ tick_got = 0 /\ tick_got' = 1
               /\ counter' = counter
               /\ sendLog' = sendLog
               /\ \E k \in 1..5 :
                    /\ reportLog' = Append(reportLog, "pong_" \o ToString(k))
                    /\ "ping_" \o ToString(k) \in Range(sendLog)
                    /\ CurrentTick >= 10 * k + 1]_vars

\* C21 witness: pong_1 was reported on tick 11, the first tick after the one
\* that sent ping_1, and that tick has not counted yet.
C21_Witness ==
    /\ modal_pc = "count"
    /\ counter = 10
    /\ tick_got = 1
    /\ reportLog = <<"pong_1">>
    /\ sendLog = <<"ping_1">>

(***************************************************************************)
(* Properties of the hosts' check-then-get                                 *)
(***************************************************************************)
\* C22: between the host's observation that the response queue is not
\* empty and its get_nowait, the queue cannot become empty: a step of the
\* service thread only appends to the response queue, the host is the only
\* one to take from it, one item at a time and only in get_nowait; so the
\* get_nowait that follows the observation finds an item and does not
\* raise, in the modal tick and in the CLI drain loop.
C22_CheckThenGet ==
    /\ [](modal_pc = "get_nowait" => Len(response_queue) >= 1)
    /\ [](cli_pc = "get_nowait" => Len(cli_response_queue) >= 1)
    /\ [][modal_pc = "get_nowait" /\ modal_pc' # modal_pc
            => Len(reportLog') = Len(reportLog) + 1]_vars
    /\ [][cli_pc = "get_nowait" /\ cli_pc' # cli_pc
            => Len(responses') = Len(responses) + 1 /\ cli_pc' = "empty"]_vars
    /\ [][modal_pc' = modal_pc /\ modal_pc # "NotStarted"
            => IsPrefix(response_queue, response_queue')]_vars
    /\ [][cli_pc' = cli_pc /\ cli_pc # "start"
            => IsPrefix(cli_response_queue, cli_response_queue')]_vars
    /\ [][Len(response_queue') < Len(response_queue)
            => modal_pc = "get_nowait"
               /\ response_queue' = Tail(response_queue)]_vars
    /\ [][Len(cli_response_queue') < Len(cli_response_queue)
            => cli_pc = "get_nowait"
               /\ cli_response_queue' = Tail(cli_response_queue)]_vars

\* C22 witness (modal tick): the tick saw one response queued, and the
\* service thread pushed another before the tick's get_nowait.
C22_Witness ==
    /\ modal_pc = "get_nowait"
    /\ tick_avail = 1
    /\ Len(response_queue) = 2

====
